---- MODULE Spec2Model ----
(***************************************************************************)
(* The broadcast hub of chess-game-api (messenger.go): the process-wide    *)
(* map `clients`, the unbuffered channel `broadcast`, one goroutine per    *)
(* connection running handleConnections, and the single goroutine running  *)
(* handleMessages.                                                         *)
(*                                                                         *)
(* Granularity.  Each blocking call (Upgrade, ReadJSON, the channel send   *)
(* and receive, WriteJSON) and each access to `clients` ends an action.  A *)
(* map write (clients[ws] = true, delete(clients, k)) is not synchronised  *)
(* in the source, so it has a duration here: it begins on the step that    *)
(* reaches it and the map changes on a later End step.  When               *)
(* two writes overlap, or the range loop advances while a write is in      *)
(* progress, the Go runtime may detect it and throw ("concurrent map       *)
(* writes", "concurrent map iteration and map write"), which ends the      *)
(* process; or it may not detect it and the operations take effect in the  *)
(* order of their End steps.  Both outcomes are modelled (MapThrow).       *)
(*                                                                         *)
(* log.Fatal ends the process: every goroutine stops where it stands, so   *)
(* a state with proc other than "starting" or "serving" has no successor.  *)
(*                                                                         *)
(* messenger.go is kept in the repository with every line commented out;   *)
(* the model is of the code as written there.  A message is named by the   *)
(* order in which its sender parked on the channel; its two string fields  *)
(* are carried unchanged and play no part in the hub's control flow.       *)
(***************************************************************************)
EXTENDS Naturals, Sequences, FiniteSets

\* Number of connection attempts made by peers over the run.
NumConns == 2

\* Number of messages peers send over the run, all connections together.
MaxMsgs == 2

Conns == 1..NumConns

\* Number of distinct id strings of each shape that clients use.
MaxId == 2

\* Number of documents the collection holds at most over the run.
MaxGames == 2

VARIABLES
    proc,       \* the process: "starting", "serving", or how it ended
    pc,         \* pc[c]: where the handleConnections goroutine of c stands
    open,       \* open[c]: the websocket of c has not been Close()d locally
    clients,    \* the keys of the map `clients`
    sendq,      \* goroutines parked on `broadcast <- msg`, in arrival order
    nmsgs,      \* messages read so far; a message is named by its arrival number
    dpc,        \* where the handleMessages goroutine stands
    msg,        \* handleMessages' local msg (0 before the first receive)
    cur,        \* handleMessages' loop variable client (0 outside the loop body)
    atStart,    \* keys of `clients` when the current range loop began
    visited,    \* keys the current range loop has produced
    delivered,  \* delivered[c]: messages WriteJSON wrote to c, in order   (history)
    attempts,   \* attempts[c]: WriteJSON calls on c in the current pass    (history)
    failedPass, \* connections whose WriteJSON failed in the current pass   (history)
    wfailed,    \* connections whose WriteJSON ever failed                  (history)
    deqOrder,   \* messages in the order handleMessages received them       (history)
    sender,     \* the connection the message of the current pass was read from (history)
    removals,   \* removals[c]: who completed a delete(clients, c), in order (history)
    store,      \* the documents of the collection chess.games
    nextOid,    \* the next ObjectID the driver generates
    resp        \* the last request served by the router and its response

vars == <<proc, pc, open, clients, sendq, nmsgs, dpc, msg, cur, atStart, visited,
          delivered, attempts, failedPass, wfailed, deqOrder, sender, removals,
          store, nextOid, resp>>

hubVars == <<proc, pc, open, clients, sendq, nmsgs, dpc, msg, cur, atStart, visited,
             delivered, attempts, failedPass, wfailed, deqOrder, sender, removals>>
storeVars == <<store, nextOid, resp>>
connVars == <<pc, open>>
dispVars == <<dpc, msg, cur, atStart, visited>>
histVars == <<delivered, attempts, failedPass, wfailed, deqOrder, sender, removals>>

----------------------------------------------------------------------------
(* The map `clients` (messenger.go:10) as Go's map operations act on it.   *)

\* clients[ws] = true
MapAssign(m, k) == m \cup {k}

\* A delete that leaves the key in the map.
MapDeleteNoop(m, k) == m

\* delete(m, k): Go's delete is a no-op when k is absent.
MapDelete(m, k) == m \ {k}

\* Goroutines of handleConnections that are inside a map write.
ConnWriters == {c \in Conns : pc[c] \in {"adding", "deleting"}}

\* handleMessages is inside its delete(clients, client).
DispWriting == dpc = "deleting"

\* handleMessages is inside `for client := range clients`.
Iterating == dpc \in {"range", "write", "stalled", "deleting"}

Running == proc = "serving"

----------------------------------------------------------------------------
(* The values the game handlers of main.go work on.  An id string is the   *)
(* {id} path segment or the "id" field of a body: it either is 24 hex      *)
(* digits (hex) or is not, and v numbers the strings of one shape.  An     *)
(* `_id` is a BSON value, an ObjectID or a string; MongoDB never matches   *)
(* the one against the other.                                              *)

PathIds == [hex : BOOLEAN, v : 1..MaxId]

\* The empty string: Game.ID when the body carries no "id".
NoId == [hex |-> FALSE, v |-> 0]

\* Sample values of Game.Player1, standing for the rest of the record.
Players == {"ann", "bob"}

\* The zero Game.
NoGame == [id |-> NoId, player1 |-> ""]

\* What json.NewDecoder(r.Body).Decode(&game) leaves in game.
Bodies == [id : PathIds \cup {NoId}, player1 : Players]

\* The n-th ObjectID.
ObjectID(n) == [kind |-> "oid", hex |-> TRUE, v |-> n]

\* primitive.ObjectIDFromHex: an error unless the string is 24 hex digits.
ObjectIDFromHex(s) ==
    IF s.hex THEN [err |-> FALSE, id |-> ObjectID(s.v)]
             ELSE [err |-> TRUE, id |-> ObjectID(0)]

\* A Go string used as a BSON value (bson.M{"_id": id} with id a string,
\* or Game.ID marshalled through its bson:"_id,omitempty" tag).
BsonString(s) == [kind |-> "str", hex |-> s.hex, v |-> s.v]

\* An `_id` decoded into Game.ID: an ObjectID as its hex form, a string
\* as itself.
IdString(k) == [hex |-> k.hex, v |-> k.v]

\* The documents a filter bson.M{"_id": k} matches.
Find(k) == {d \in store : d.key = k}

\* Decode(&game) of a document.
Decode(d) == [id |-> IdString(d.key), player1 |-> d.player1]

----------------------------------------------------------------------------
Init ==
    /\ proc = "starting"
    /\ pc = [c \in Conns |-> "new"]
    /\ open = [c \in Conns |-> FALSE]
    /\ clients = {}
    /\ sendq = <<>>
    /\ nmsgs = 0
    /\ dpc = "recv"
    /\ msg = 0
    /\ cur = 0
    /\ atStart = {}
    /\ visited = {}
    /\ delivered = [c \in Conns |-> <<>>]
    /\ attempts = [c \in Conns |-> 0]
    /\ failedPass = {}
    /\ wfailed = {}
    /\ deqOrder = <<>>
    /\ sender = 0
    /\ removals = [c \in Conns |-> <<>>]
    /\ store = {}
    /\ nextOid = 1
    /\ resp = [op |-> "none", id |-> NoId, status |-> 0, body |-> NoGame]

----------------------------------------------------------------------------
(* messenger(): http.ListenAndServe either serves or returns an error,     *)
(* and the error is log.Fatal.                                             *)

ListenOK ==
    /\ proc = "starting"
    /\ proc' = "serving"
    /\ UNCHANGED <<pc, open, clients, sendq, nmsgs, dispVars, histVars>>
    /\ UNCHANGED storeVars

ListenFail ==
    /\ proc = "starting"
    /\ proc' = "fatal_listen"
    /\ UNCHANGED <<pc, open, clients, sendq, nmsgs, dispVars, histVars>>
    /\ UNCHANGED storeVars

----------------------------------------------------------------------------
(* handleConnections, one goroutine per request to /ws.  Connections are   *)
(* numbered in the order their requests arrive.                            *)

Arrived(c) == \A d \in Conns : d < c => pc[d] # "new"

\* A handler that starts its read loop without clients[ws] = true.
UpgradeOKNoRegister(c) ==
    /\ Running
    /\ pc[c] = "new"
    /\ Arrived(c)
    /\ pc' = [pc EXCEPT ![c] = "read"]
    /\ open' = [open EXCEPT ![c] = TRUE]
    /\ UNCHANGED <<proc, clients, sendq, nmsgs, dispVars, histVars>>
    /\ UNCHANGED storeVars

\* upgrader.Upgrade succeeds: ws exists, defer ws.Close() is armed, and
\* clients[ws] = true begins.
UpgradeOK(c) ==
    /\ Running
    /\ pc[c] = "new"
    /\ Arrived(c)
    /\ pc' = [pc EXCEPT ![c] = "adding"]
    /\ open' = [open EXCEPT ![c] = TRUE]
    /\ UNCHANGED <<proc, clients, sendq, nmsgs, dispVars, histVars>>
    /\ UNCHANGED storeVars

\* upgrader.Upgrade returns an error: log.Fatal(err) exits the process.
UpgradeFail(c) ==
    /\ Running
    /\ pc[c] = "new"
    /\ Arrived(c)
    /\ proc' = "fatal_upgrade"
    /\ pc' = [pc EXCEPT ![c] = "rejected"]
    /\ UNCHANGED <<open, clients, sendq, nmsgs, dispVars, histVars>>
    /\ UNCHANGED storeVars

\* clients[ws] = true takes effect; the read loop starts.
RegisterEnd(c) ==
    /\ Running
    /\ pc[c] = "adding"
    /\ clients' = MapAssign(clients, c)
    /\ pc' = [pc EXCEPT ![c] = "read"]
    /\ UNCHANGED <<proc, open, sendq, nmsgs, dispVars, histVars>>
    /\ UNCHANGED storeVars

\* A send on a buffered channel: the message is queued and the goroutine
\* goes straight back to ReadJSON.
ReadOKBuffered(c) ==
    /\ Running
    /\ pc[c] = "read"
    /\ nmsgs < MaxMsgs
    /\ nmsgs' = nmsgs + 1
    /\ sendq' = Append(sendq, [conn |-> c, msg |-> nmsgs + 1,
                               reg |-> c \in clients])
    /\ UNCHANGED <<proc, pc, open, clients, dispVars, histVars>>
    /\ UNCHANGED storeVars

\* ws.ReadJSON(&msg) returns a message and the goroutine parks on
\* `broadcast <- msg` (the channel is unbuffered).  The source puts no
\* condition on the read: after handleMessages has closed the connection
\* a frame received before the close can still be returned.
ReadOK(c) ==
    /\ Running
    /\ pc[c] = "read"
    /\ nmsgs < MaxMsgs
    /\ nmsgs' = nmsgs + 1
    /\ sendq' = Append(sendq, [conn |-> c, msg |-> nmsgs + 1,
                               reg |-> c \in clients])
    /\ pc' = [pc EXCEPT ![c] = "blocked"]
    /\ UNCHANGED <<proc, open, clients, dispVars, delivered, attempts, failedPass,
                   wfailed, deqOrder, sender, removals>>
    /\ UNCHANGED storeVars

\* ws.ReadJSON(&msg) returns an error (peer gone, bad frame, or the
\* connection was closed by handleMessages); the error is logged and
\* delete(clients, ws) begins.
ReadFail(c) ==
    /\ Running
    /\ pc[c] = "read"
    /\ pc' = [pc EXCEPT ![c] = "deleting"]
    /\ UNCHANGED <<proc, open, clients, sendq, nmsgs, dispVars, histVars>>
    /\ UNCHANGED storeVars

\* A cleanup that empties the whole map instead of deleting one key.
ConnDeleteEndClear(c) ==
    /\ Running
    /\ pc[c] = "deleting"
    /\ clients' = {}
    /\ removals' = [removals EXCEPT ![c] = Append(@, "conn")]
    /\ pc' = [pc EXCEPT ![c] = "closing"]
    /\ UNCHANGED <<proc, open, sendq, nmsgs, dispVars, delivered, attempts,
                   failedPass, wfailed, deqOrder, sender>>
    /\ UNCHANGED storeVars

\* A delete that panics when the key is absent.
ConnDeleteEndStrict(c) ==
    /\ Running
    /\ pc[c] = "deleting"
    /\ clients' = MapDelete(clients, c)
    /\ removals' = [removals EXCEPT ![c] = Append(@, "conn")]
    /\ pc' = [pc EXCEPT ![c] = "closing"]
    /\ proc' = IF c \in clients THEN proc ELSE "fatal_map"
    /\ UNCHANGED <<open, sendq, nmsgs, dispVars, delivered, attempts,
                   failedPass, wfailed, deqOrder, sender>>
    /\ UNCHANGED storeVars

\* delete(clients, ws) takes effect; break leaves the loop.
ConnDeleteEnd(c) ==
    /\ Running
    /\ pc[c] = "deleting"
    /\ clients' = MapDelete(clients, c)
    /\ removals' = [removals EXCEPT ![c] = Append(@, "conn")]
    /\ pc' = [pc EXCEPT ![c] = "closing"]
    /\ UNCHANGED <<proc, open, sendq, nmsgs, dispVars, delivered, attempts,
                   failedPass, wfailed, deqOrder, sender>>
    /\ UNCHANGED storeVars

\* The deferred ws.Close() runs and the goroutine ends.
ConnClose(c) ==
    /\ Running
    /\ pc[c] = "closing"
    /\ open' = [open EXCEPT ![c] = FALSE]
    /\ pc' = [pc EXCEPT ![c] = "done"]
    /\ UNCHANGED <<proc, clients, sendq, nmsgs, dispVars, histVars>>
    /\ UNCHANGED storeVars

----------------------------------------------------------------------------
(* handleMessages, the single dispatch goroutine.                          *)

\* A receive that wakes the sender that parked last.
QueueTakeLast(q) == Len(q)

\* Which parked sender `<-broadcast` wakes: the channel's wait queue is FIFO.
QueueTake(q) == 1

\* The keys `for client := range clients` can still produce: a key is
\* produced at most once, and a key deleted before it is reached is never
\* produced (the loop reads the live map, it takes no copy).
Producible == clients \ visited

\* The keys the loop has yet to produce before it may end: those present
\* when it began and still present.  A key added during the loop may be
\* produced or skipped.
MustProduce == (atStart \cap clients) \ visited

\* A send that serves the last connection from the other end of a message
\* buffer instead of from the local msg.
PayloadReversed == IF cur = NumConns /\ msg <= MaxMsgs THEN MaxMsgs + 1 - msg ELSE msg

\* The value WriteJSON sends: the msg received for this pass.
Payload == msg

\* A read loop that registers the connection at the top of every round:
\* the sender woken by the receive goes back to clients[ws] = true.
DequeueReRegister ==
    /\ Running
    /\ dpc = "recv"
    /\ sendq # <<>>
    /\ LET e == sendq[1]
       IN /\ msg' = e.msg
          /\ pc' = [pc EXCEPT ![e.conn] = "adding"]
          /\ sendq' = Tail(sendq)
          /\ deqOrder' = Append(deqOrder, e.msg)
          /\ sender' = e.conn
    /\ atStart' = clients
    /\ visited' = {}
    /\ cur' = 0
    /\ attempts' = [c \in Conns |-> 0]
    /\ failedPass' = {}
    /\ dpc' = "range"
    /\ UNCHANGED <<proc, open, clients, nmsgs, delivered, wfailed, removals>>
    /\ UNCHANGED storeVars

\* msg := <-broadcast, and the range loop begins.
Dequeue ==
    /\ Running
    /\ dpc = "recv"
    /\ sendq # <<>>
    /\ LET i == QueueTake(sendq)
           e == sendq[i]
       IN /\ msg' = e.msg
          /\ pc' = [pc EXCEPT ![e.conn] = "read"]
          /\ sendq' = [j \in 1..(Len(sendq) - 1) |->
                          IF j < i THEN sendq[j] ELSE sendq[j + 1]]
          /\ deqOrder' = Append(deqOrder, e.msg)
          /\ sender' = e.conn
    /\ atStart' = clients
    /\ visited' = {}
    /\ cur' = 0
    /\ attempts' = [c \in Conns |-> 0]
    /\ failedPass' = {}
    /\ dpc' = "range"
    /\ UNCHANGED <<proc, open, clients, nmsgs, delivered, wfailed, removals>>
    /\ UNCHANGED storeVars

\* A loop body that leaves out the connection the message came from.
IterNextSkipSender(c) ==
    /\ Running
    /\ dpc = "range"
    /\ c \in Producible
    /\ cur' = IF c = sender THEN 0 ELSE c
    /\ visited' = visited \cup {c}
    /\ dpc' = IF c = sender THEN "range" ELSE "write"
    /\ UNCHANGED <<proc, connVars, clients, sendq, nmsgs, msg, atStart, histVars>>
    /\ UNCHANGED storeVars

\* The range loop produces its next key.
IterNext(c) ==
    /\ Running
    /\ dpc = "range"
    /\ c \in Producible
    /\ cur' = c
    /\ visited' = visited \cup {c}
    /\ dpc' = "write"
    /\ UNCHANGED <<proc, connVars, clients, sendq, nmsgs, msg, atStart, histVars>>
    /\ UNCHANGED storeVars

\* The range loop ends (its iterator is dropped); back to the receive.
IterEnd ==
    /\ Running
    /\ dpc = "range"
    /\ MustProduce = {}
    /\ atStart' = {}
    /\ visited' = {}
    /\ attempts' = [c \in Conns |-> 0]
    /\ failedPass' = {}
    /\ sender' = 0
    /\ dpc' = "recv"
    /\ UNCHANGED <<proc, connVars, clients, sendq, nmsgs, msg, cur, delivered,
                   wfailed, deqOrder, removals>>
    /\ UNCHANGED storeVars

\* client.WriteJSON(msg) returns nil.
WriteOK ==
    /\ Running
    /\ dpc = "write"
    /\ open[cur]
    /\ delivered' = [delivered EXCEPT ![cur] = Append(@, Payload)]
    /\ attempts' = [attempts EXCEPT ![cur] = @ + 1]
    /\ cur' = 0
    /\ dpc' = "range"
    /\ UNCHANGED <<proc, connVars, clients, sendq, nmsgs, msg, atStart, visited,
                   failedPass, wfailed, deqOrder, sender, removals>>
    /\ UNCHANGED storeVars

\* client.WriteJSON(msg) returns an error; the error is logged,
\* client.Close() runs and delete(clients, client) begins.
WriteFail ==
    /\ Running
    /\ dpc = "write"
    /\ attempts' = [attempts EXCEPT ![cur] = @ + 1]
    /\ failedPass' = failedPass \cup {cur}
    /\ wfailed' = wfailed \cup {cur}
    /\ open' = [open EXCEPT ![cur] = FALSE]
    /\ dpc' = "deleting"
    /\ UNCHANGED <<proc, pc, clients, sendq, nmsgs, msg, cur, atStart, visited,
                   delivered, deqOrder, sender, removals>>
    /\ UNCHANGED storeVars

\* client.WriteJSON(msg) does not return: the peer has stopped reading and
\* the source sets no write deadline (no SetWriteDeadline before line 57).
WriteStall ==
    /\ Running
    /\ dpc = "write"
    /\ open[cur]
    /\ dpc' = "stalled"
    /\ UNCHANGED <<proc, connVars, clients, sendq, nmsgs, msg, cur, atStart, visited,
                   histVars>>
    /\ UNCHANGED storeVars

\* The peer reads again, its connection breaks, or the connection's own
\* goroutine has closed it: WriteJSON can return.
WriteResume ==
    /\ Running
    /\ dpc = "stalled"
    /\ dpc' = "write"
    /\ UNCHANGED <<proc, connVars, clients, sendq, nmsgs, msg, cur, atStart, visited,
                   histVars>>
    /\ UNCHANGED storeVars

\* A failure branch that closes the connection but leaves it in the map.
DispDeleteEndSkip ==
    /\ Running
    /\ dpc = "deleting"
    /\ cur' = 0
    /\ dpc' = "range"
    /\ UNCHANGED <<proc, connVars, clients, sendq, nmsgs, msg, atStart, visited,
                   histVars>>
    /\ UNCHANGED storeVars

\* A failure branch that drops every connection the pass has reached so far.
DispDeleteEndAll ==
    /\ Running
    /\ dpc = "deleting"
    /\ clients' = clients \ visited
    /\ removals' = [removals EXCEPT ![cur] = Append(@, "disp")]
    /\ cur' = 0
    /\ dpc' = "range"
    /\ UNCHANGED <<proc, connVars, sendq, nmsgs, msg, atStart, visited,
                   delivered, attempts, failedPass, wfailed, deqOrder, sender>>
    /\ UNCHANGED storeVars

\* delete(clients, client) takes effect; the loop goes on.
DispDeleteEnd ==
    /\ Running
    /\ dpc = "deleting"
    /\ clients' = MapDelete(clients, cur)
    /\ removals' = [removals EXCEPT ![cur] = Append(@, "disp")]
    /\ cur' = 0
    /\ dpc' = "range"
    /\ UNCHANGED <<proc, connVars, sendq, nmsgs, msg, atStart, visited,
                   delivered, attempts, failedPass, wfailed, deqOrder, sender>>
    /\ UNCHANGED storeVars

----------------------------------------------------------------------------
(* The unsynchronised map.  No lock guards `clients`: the states below are *)
(* data races, and in them the runtime may throw.                          *)

\* Two goroutines are inside a map write at once.
WriteWriteRace == Cardinality(ConnWriters) + (IF DispWriting THEN 1 ELSE 0) >= 2

\* A goroutine is inside a map write while the range loop is under way.
IterWriteRace == Iterating /\ ConnWriters # {}

\* The runtime's check fires: a write finds another write in progress, or
\* the range loop advances while a write is in progress.
MapThrow ==
    /\ Running
    /\ \/ WriteWriteRace
       \/ dpc = "range" /\ ConnWriters # {}
    /\ proc' = "fatal_map"
    /\ UNCHANGED <<connVars, clients, sendq, nmsgs, dispVars, histVars>>
    /\ UNCHANGED storeVars

----------------------------------------------------------------------------
Next ==
    \/ ListenOK
    \/ ListenFail
    \/ \E c \in Conns : UpgradeOK(c)
    \/ \E c \in Conns : UpgradeFail(c)
    \/ \E c \in Conns : RegisterEnd(c)
    \/ \E c \in Conns : ReadOK(c)
    \/ \E c \in Conns : ReadFail(c)
    \/ \E c \in Conns : ConnDeleteEnd(c)
    \/ \E c \in Conns : ConnClose(c)
    \/ Dequeue
    \/ \E c \in Conns : IterNext(c)
    \/ IterEnd
    \/ WriteOK
    \/ WriteFail
    \/ WriteStall
    \/ WriteResume
    \/ DispDeleteEnd
    \/ MapThrow

Spec == Init /\ [][Next]_vars

----------------------------------------------------------------------------
(* The game handlers (main.go:110-186 and the earlier revision of the file *)
(* in unnamed/part_000).  Each request is served in one step; the hub,     *)
(* which main.go does not start (line 82 is commented out), stands still.  *)

Respond(op, s, status, body) ==
    resp' = [op |-> op, id |-> s, status |-> status, body |-> body]

\* POST /games.  Without an "id" in the body `_id` is omitted and the
\* driver generates an ObjectID; with one, `_id` is that string.
createGame(b) ==
    LET k == IF b.id = NoId THEN ObjectID(nextOid) ELSE BsonString(b.id)
    IN /\ b.id = NoId => nextOid <= MaxId
       /\ IF Find(k) # {}
          THEN /\ Respond("createGame", b.id, 500, NoGame)
               /\ UNCHANGED <<store, nextOid>>
          ELSE /\ Cardinality(store) < MaxGames
               /\ store' = store \cup {[key |-> k, player1 |-> b.player1]}
               /\ nextOid' = IF b.id = NoId THEN nextOid + 1 ELSE nextOid
               /\ Respond("createGame", b.id, 201, NoGame)
       /\ UNCHANGED hubVars

\* GET /games: the handler body is commented out.
getGames ==
    /\ Respond("getGames", NoId, 200, NoGame)
    /\ UNCHANGED <<store, nextOid, hubVars>>

\* GET /games/{id}, main.go: the id is parsed as an ObjectID; a Decode
\* error is logged and the handler goes on to encode `game`.
getGame(s) ==
    LET r == ObjectIDFromHex(s)
    IN /\ IF r.err
          THEN Respond("getGame", s, 404, NoGame)
          ELSE IF Find(r.id) = {}
               THEN Respond("getGame", s, 200, NoGame)
               ELSE \E d \in Find(r.id) : Respond("getGame", s, 200, Decode(d))
       /\ UNCHANGED <<store, nextOid, hubVars>>

\* GET /games/{id}, unnamed/part_000: the filter is the raw string.
getGame_part000(s) ==
    /\ IF Find(BsonString(s)) = {}
       THEN Respond("getGame_part000", s, 404, NoGame)
       ELSE \E d \in Find(BsonString(s)) :
                Respond("getGame_part000", s, 200, Decode(d))
    /\ UNCHANGED <<store, nextOid, hubVars>>

\* PUT /games/{id}: ReplaceOne with the raw string as filter; its result
\* (MatchedCount) is discarded.  A replacement that carries another `_id`
\* is rejected by the server.
updateGame(s, b) ==
    LET M == Find(BsonString(s))
    IN /\ IF M = {}
          THEN /\ Respond("updateGame", s, 200, NoGame)
               /\ UNCHANGED store
          ELSE IF b.id \notin {NoId, s}
               THEN /\ Respond("updateGame", s, 500, NoGame)
                    /\ UNCHANGED store
               ELSE /\ store' = (store \ M) \cup
                                    {[key |-> BsonString(s), player1 |-> b.player1]}
                    /\ Respond("updateGame", s, 200, NoGame)
       /\ UNCHANGED <<nextOid, hubVars>>

\* DELETE /games/{id}: DeleteOne with the raw string as filter; its result
\* (DeletedCount) is discarded.
deleteGame(s) ==
    /\ store' = store \ Find(BsonString(s))
    /\ Respond("deleteGame", s, 200, NoGame)
    /\ UNCHANGED <<nextOid, hubVars>>

StoreNext ==
    \/ \E b \in Bodies : createGame(b)
    \/ getGames
    \/ \E s \in PathIds : getGame(s)
    \/ \E s \in PathIds : getGame_part000(s)
    \/ \E s \in PathIds, b \in Bodies : updateGame(s, b)
    \/ \E s \in PathIds : deleteGame(s)

StoreSpec == Init /\ [][StoreNext]_vars

----------------------------------------------------------------------------
(* Scheduling.  The Go scheduler runs every goroutine that can run, so a   *)
(* step that needs nothing from a peer is taken if it stays possible.      *)
(* Nothing is assumed of the peers: whether a request arrives, a frame is  *)
(* sent, a connection breaks, or a peer that stopped reading reads again.  *)

\* client.WriteJSON(msg) returns, one way or the other.
WriteReturns == WriteOK \/ WriteFail

\* ReadJSON on a connection that handleMessages has closed returns an
\* error once the frames received before the close are used up.
ReadFailClosed(c) == ~open[c] /\ ReadFail(c)

\* A WriteJSON blocked on a connection that has been closed locally
\* returns: closing a net.Conn unblocks its pending writes.
WriteUnblocked == dpc = "stalled" /\ ~open[cur] /\ WriteResume

Fairness ==
    /\ WF_vars(Dequeue)
    /\ WF_vars(\E c \in Conns : IterNext(c))
    /\ WF_vars(IterEnd)
    /\ WF_vars(WriteReturns)
    /\ WF_vars(WriteUnblocked)
    /\ WF_vars(DispDeleteEnd)
    /\ \A c \in Conns :
          /\ WF_vars(RegisterEnd(c))
          /\ WF_vars(ReadFailClosed(c))
          /\ WF_vars(ConnDeleteEnd(c))
          /\ WF_vars(ConnClose(c))

FairSpec == Init /\ [][Next]_vars /\ Fairness

----------------------------------------------------------------------------
(* Vocabulary of the properties.                                           *)

Range(q) == {q[i] : i \in DOMAIN q}

\* The step that ends a fan-out pass (the range loop of one message).
PassEnds == dpc = "range" /\ dpc' = "recv"

\* The read loop of c is running: c has been registered and its goroutine
\* has not left the loop.
LoopActive(c) == pc[c] \in {"read", "blocked", "deleting"}

\* ReadJSON on c has returned an error.
ReadFailed(c) == pc[c] \in {"deleting", "closing", "done"}

\* handleMessages is between a failed WriteJSON on c and the end of the
\* delete that follows it.
WriteFailurePending(c) == dpc = "deleting" /\ cur = c

----------------------------------------------------------------------------
\* C1 (failure isolation): when a fan-out pass in which some WriteJSON
\* failed ends, every other connection that was in `clients` when the
\* message was received, and whose own WriteJSON did not fail in the pass,
\* has been sent the message in that pass.
FailureIsolation ==
    [][(PassEnds /\ failedPass # {}) =>
          \A c \in atStart \ failedPass : msg \in Range(delivered[c])]_vars

\* C2 (exactly-once fan-out to the snapshot): when a fan-out pass ends,
\* WriteJSON has been called exactly once on every connection that was in
\* `clients` when the message of the pass was received.
ExactlyOnceFanout ==
    [][PassEnds => \A c \in atStart : attempts[c] = 1]_vars

\* C3 (registration invariant, as claimed): in every state a connection is
\* in `clients` exactly when its read loop is active and neither a read
\* failure on it nor a write failure to it has been observed.
RegistrationInvariant ==
    \A c \in Conns :
        c \in clients <=> (LoopActive(c) /\ ~ReadFailed(c) /\ c \notin wfailed)

\* C3 (registration invariant, amended): a connection is in `clients`
\* exactly when its read loop is active and no delete that follows a write
\* failure to it has completed; the read loop stays active, and the
\* connection a member, from the moment a failure is observed until the
\* delete that handles it takes effect, and no longer.
RegistrationInvariantAmended ==
    \A c \in Conns :
        /\ c \in clients <=>
              (LoopActive(c) /\ (c \in wfailed => WriteFailurePending(c)))
        /\ (LoopActive(c) /\ ~ReadFailed(c) /\ c \notin wfailed) => c \in clients
        /\ (pc[c] \in {"closing", "done"}) => c \notin clients

\* A registered connection whose ReadJSON has failed and whose delete has
\* not yet taken effect, beside a registered connection with no failure.
RegistrationWitness ==
    \E c, d \in Conns :
        /\ c \in clients /\ pc[c] = "deleting"
        /\ d \in clients /\ pc[d] = "read" /\ d \notin wfailed

\* C4 (registry mutual exclusion): no state has one goroutine inside a write
\* of `clients` while another goroutine is inside a write of it or inside
\* the range loop over it.
RegistryMutualExclusion == ~WriteWriteRace /\ ~IterWriteRace

\* C5 (sequential dispatch): handleMessages receives the messages in the
\* order their senders parked on the channel (messages are numbered in that
\* order), it receives only between passes, and every WriteJSON that
\* completes writes the message received last: all sends of a message are
\* over before the next message is received.
SequentialDispatch ==
    [][/\ deqOrder' # deqOrder =>
             /\ dpc = "recv"
             /\ deqOrder' = Append(deqOrder, Len(deqOrder) + 1)
       /\ \A c \in Conns :
             delivered'[c] # delivered[c] =>
                 /\ deqOrder' = deqOrder
                 /\ deqOrder # <<>>
                 /\ delivered'[c] = Append(delivered[c], deqOrder[Len(deqOrder)])]_vars

\* Two messages have been received, one connection has been sent both, and
\* another, still registered, has so far been sent the first.
SequentialDispatchWitness ==
    /\ deqOrder = <<1, 2>>
    /\ \E c \in Conns : delivered[c] = <<1, 2>>
    /\ \E c \in Conns : delivered[c] = <<1>> /\ c \in clients

\* C6 (same relative order at all clients): two messages sent to both of two
\* connections were sent to both in the same order.
SameRelativeOrder ==
    \A c1, c2 \in Conns :
        \A i, j \in DOMAIN delivered[c1] :
            \A k, l \in DOMAIN delivered[c2] :
                (i < j /\ delivered[c1][i] = delivered[c2][k]
                       /\ delivered[c1][j] = delivered[c2][l]) => k < l

\* Two connections have each been sent the same two messages.
SameRelativeOrderWitness ==
    \E c1, c2 \in Conns :
        /\ c1 # c2
        /\ Len(delivered[c1]) >= 2
        /\ Range(delivered[c1]) = Range(delivered[c2])

\* C7 (write failure is terminal for that connection only): a connection
\* whose WriteJSON failed is closed, is out of `clients` once the delete
\* after the failure has taken effect, and WriteJSON is never called on it
\* again; the failing step changes no read loop, parks or wakes no sender and
\* leaves the process running; and a later pass still sends its message to
\* every connection that was registered when it began and still is when it
\* ends.
WriteFailureTerminal ==
    [][/\ \A c \in wfailed' :
             /\ ~open'[c]
             /\ c \in clients' => (dpc' = "deleting" /\ cur' = c)
             /\ ~(dpc' \in {"write", "stalled"} /\ cur' = c)
       /\ \A c \in wfailed : attempts'[c] <= attempts[c]
       /\ wfailed' # wfailed =>
             /\ pc' = pc
             /\ sendq' = sendq
             /\ proc' = proc
             /\ clients' = clients
       /\ PassEnds =>
             \A c \in atStart \cap clients : msg \in Range(delivered[c])]_vars

\* A connection failed in an earlier pass and is gone, and in the pass under
\* way another connection has been sent the later message.
WriteFailureWitness ==
    \E b, a \in Conns :
        /\ b \in wfailed \ failedPass
        /\ b \notin clients
        /\ a \in clients \ wfailed
        /\ attempts[a] = 1
        /\ msg \in Range(delivered[a])

\* C8 (handshake failure is local and non-fatal): after a failed upgrade the
\* connection is not in `clients` and the process keeps serving; only a
\* failed ListenAndServe ends the process.
HandshakeFailureLocal ==
    /\ \A c \in Conns : pc[c] = "rejected" => (c \notin clients /\ proc = "serving")
    /\ proc # "fatal_upgrade"

\* C9 (read failure is terminal and local): the step on which ReadJSON
\* fails parks no sender, counts no message and leaves `clients` alone; from
\* then on the goroutine only goes forward (delete, close, end) and never
\* reads or registers again; its delete removes c and nothing else; once the
\* delete is done c stays out of `clients`, and at the end c is closed.
ReadFailureTerminal ==
    [][\A c \in Conns :
          /\ (pc[c] = "read" /\ pc'[c] = "deleting") =>
                 /\ sendq' = sendq
                 /\ nmsgs' = nmsgs
                 /\ clients' = clients
          /\ pc[c] = "deleting" => pc'[c] \in {"deleting", "closing"}
          /\ pc[c] = "closing" => pc'[c] \in {"closing", "done"}
          /\ pc[c] = "done" => pc'[c] = "done"
          /\ (pc[c] = "deleting" /\ pc'[c] = "closing") =>
                 /\ c \notin clients'
                 /\ clients' \ {c} = clients \ {c}
          /\ pc'[c] \in {"closing", "done"} => c \notin clients'
          /\ pc'[c] = "done" => ~open'[c]]_vars

\* A read loop has ended after a read failure while another connection,
\* registered before the failure was handled, is still registered.
ReadFailureWitness ==
    \E c, d \in Conns :
        /\ pc[c] = "done"
        /\ removals[c] = <<"conn">>
        /\ d \in clients
        /\ d < c

\* C10 (idempotent removal): every completed delete(clients, c) leaves
\* `clients` without c and otherwise as it was, and ends no process; when c
\* is already absent it changes nothing.  So after handleMessages and the
\* read loop of c have both deleted c, in either order, `clients` is what
\* the first delete left.
IdempotentRemoval ==
    [][\A c \in Conns :
          removals'[c] # removals[c] =>
              /\ clients' = clients \ {c}
              /\ c \notin clients => clients' = clients
              /\ c \notin clients'
              /\ proc' = proc]_vars

\* Both orders have happened: one connection was deleted by its read loop
\* and then again by handleMessages, another the other way round.
IdempotentRemovalWitness ==
    \E c, d \in Conns :
        /\ removals[c] = <<"conn", "disp">>
        /\ removals[d] = <<"disp", "conn">>

NonBlockingPush ==
    \A c \in Conns : pc[c] = "blocked" => dpc = "recv"

\* C12 (amended): `broadcast` holds nothing.  A read loop that has read a
\* message stays parked on the send, reading nothing more, until
\* handleMessages is at its receive; parked senders wait in arrival order,
\* each with the one message it read, and the receive that wakes a sender
\* takes its message and starts the next pass.
BlockingPush ==
    [][/\ \A i \in DOMAIN sendq' : pc'[sendq'[i].conn] = "blocked"
       /\ \A c \in Conns :
             pc'[c] = "blocked" =>
                 Cardinality({i \in DOMAIN sendq' : sendq'[i].conn = c}) = 1
       /\ \A i, j \in DOMAIN sendq' : i < j => sendq'[i].msg < sendq'[j].msg
       /\ \A c \in Conns :
             (pc[c] = "blocked" /\ pc'[c] # "blocked") =>
                 /\ dpc = "recv" /\ dpc' = "range"
                 /\ pc'[c] = "read"
                 /\ sendq # <<>> /\ sendq[1].conn = c /\ msg' = sendq[1].msg
       /\ \A c \in Conns :
             (pc[c] = "blocked" /\ pc'[c] = "blocked") =>
                 \A i \in DOMAIN sendq' : sendq'[i].conn = c =>
                     \E j \in DOMAIN sendq : sendq[j] = sendq'[i]]_vars

\* A read loop is parked on its send while handleMessages is inside a
\* WriteJSON of the pass of an earlier message.
BlockingPushWitness ==
    \E c \in Conns :
        /\ pc[c] = "blocked"
        /\ dpc = "write"
        /\ deqOrder # <<>>

\* C13 (dispatch progress): under fair scheduling every message a read loop
\* has parked on the channel is eventually received and its fan-out pass
\* eventually ends.  (Stated for as long as the process serves: a run that
\* log.Fatal or a runtime throw has ended is not held against the claim.)
DispatchProgress ==
    \A m \in 1..MaxMsgs :
        (nmsgs >= m) ~>
            \/ proc # "serving"
            \/ Len(deqOrder) > m
            \/ Len(deqOrder) = m /\ dpc = "recv"

\* C14 (no double registration): a connection enters `clients` only on the
\* step that ends its one clients[ws] = true, which its goroutine reaches
\* from the handshake and leaves for its first ReadJSON; it has not been
\* deleted before, and once a delete of it has completed it is never in
\* `clients` again.
NoDoubleRegistration ==
    [][\A c \in Conns :
          /\ (c \notin clients /\ c \in clients') =>
                 /\ pc[c] = "adding" /\ pc'[c] = "read"
                 /\ removals[c] = <<>>
                 /\ delivered[c] = <<>>
          /\ pc'[c] = "adding" => pc[c] \in {"new", "adding"}
          /\ (pc[c] = "adding" /\ pc'[c] # "adding") =>
                 (pc'[c] = "read" /\ c \in clients')
          /\ removals'[c] # <<>> => c \notin clients']_vars

\* A connection that handleMessages has deleted while its read loop is
\* still running, so that the loop could register it again if it did.
NoDoubleRegistrationWitness ==
    \E c \in Conns :
        /\ removals[c] = <<"disp">>
        /\ c \notin clients
        /\ pc[c] \in {"read", "blocked"}
        /\ delivered[c] # <<>>

\* C17 (a pass removes exactly the failed targets): handleMessages deletes
\* and closes a connection only when the WriteJSON to it failed in the
\* current pass; when the pass ends every connection whose write failed in
\* it is closed and deleted, and every connection whose write succeeded is
\* still in `clients` unless its own goroutine has deleted it.
PassRemovesExactlyFailed ==
    [][\A c \in Conns :
          /\ removals'[c] = Append(removals[c], "disp") =>
                 (c = cur /\ c \in failedPass)
          /\ (open[c] /\ ~open'[c] /\ pc'[c] = pc[c]) =>
                 (c = cur /\ c \in failedPass')
          /\ (c \in clients /\ c \notin clients') =>
                 \/ pc[c] = "deleting" /\ pc'[c] = "closing"
                 \/ c = cur /\ c \in failedPass
          /\ (PassEnds /\ c \in failedPass) =>
                 /\ c \notin clients
                 /\ ~open[c]
                 /\ "disp" \in Range(removals[c])
          /\ (PassEnds /\ attempts[c] >= 1 /\ c \notin failedPass) =>
                 /\ "disp" \notin Range(removals[c])
                 /\ c \in clients \/ "conn" \in Range(removals[c])]_vars

\* A pass is about to end in which one write succeeded before another
\* failed: the failed connection is gone, the other is still registered.
PassRemovesExactlyFailedWitness ==
    /\ dpc = "range"
    /\ MustProduce = {}
    /\ \E c, d \in Conns :
          /\ c \in failedPass /\ c \notin clients /\ ~open[c]
          /\ d \notin failedPass /\ attempts[d] = 1 /\ d \in clients
          /\ delivered[d] # <<>>
          /\ Len(delivered[d]) > Len(delivered[c])

\* C18 (Ingress Loop shutdown after write failure): once handleMessages has
\* closed and deleted a connection whose WriteJSON failed, that connection's
\* goroutine eventually leaves its loop and returns (or the process has
\* exited), also when it was parked on `broadcast <- msg` at the time.
IngressShutdownAfterWriteFailure ==
    \A c \in Conns :
        (c \in wfailed /\ "disp" \in Range(removals[c])) ~>
            (pc[c] = "done" \/ proc # "serving")

\* The messages received so far followed by the messages still held by
\* parked senders.
Pushed == deqOrder \o [i \in DOMAIN sendq |-> sendq[i].msg]

\* Every message returned by ReadJSON so far is in `Pushed` once, in the
\* order the reads returned: none invented, repeated or lost.
PushedExactlyOnce == Pushed = [i \in 1..nmsgs |-> i]

\* C19 as stated (only registered connections produce messages): every
\* message handleMessages receives was read from a connection that was in
\* `clients` when ReadJSON returned it, and every message read is pushed
\* exactly once.
OnlyRegisteredProduce ==
    [][/\ (dpc = "recv" /\ dpc' = "range") => sendq[1].reg
       /\ PushedExactlyOnce']_vars

\* C19 amended: every message handleMessages receives was read by a
\* goroutine that had completed clients[ws] = true and had not itself
\* deleted the connection: the connection was in `clients`, or only
\* handleMessages had deleted it after a failed write (a frame buffered
\* before the close).  Every message read is pushed exactly once.
OnlyOnceRegisteredProduce ==
    [][/\ \A c \in Conns :
             (pc[c] = "read" /\ pc'[c] = "blocked") =>
                 /\ "conn" \notin Range(removals[c])
                 /\ c \in clients \/ (c \in wfailed /\ removals[c] = <<"disp">>)
                 /\ sendq'[Len(sendq')] =
                        [conn |-> c, msg |-> nmsgs', reg |-> c \in clients]
       /\ (dpc = "recv" /\ dpc' = "range") =>
             /\ sendq # <<>> /\ msg' = sendq[1].msg
             /\ sendq[1].reg \/ sendq[1].conn \in wfailed
       /\ PushedExactlyOnce']_vars

\* handleMessages is about to receive a message that a connection read
\* after handleMessages had closed and deleted it.
OnlyOnceRegisteredProduceWitness ==
    /\ dpc = "recv"
    /\ deqOrder # <<>>
    /\ sendq # <<>>
    /\ ~sendq[1].reg
    /\ removals[sendq[1].conn] = <<"disp">>

\* The stored games a client names by the id string s.
Stored(s) == {d \in store : IdString(d.key) = s}

\* C15 (update and delete report not-found): updateGame and deleteGame for
\* an id that names no stored game answer not-found and leave the
\* collection as it was; they answer ok only when a game of that id was
\* stored.
UpdateDeleteReportNotFound ==
    [][resp'.op \in {"updateGame", "deleteGame"} =>
          /\ Stored(resp'.id) = {} => (resp'.status = 404 /\ store' = store)
          /\ resp'.status = 200 => Stored(resp'.id) # {}]_vars

\* C16 (read reports not-found): getGame answers with the stored game when
\* one of that id exists and with not-found otherwise; a success never
\* carries the zero Game.
ReadReportsNotFound ==
    [][resp'.op \in {"getGame", "getGame_part000"} =>
          IF Stored(resp'.id) # {}
          THEN /\ resp'.status = 200
               /\ resp'.body \in {Decode(d) : d \in Stored(resp'.id)}
          ELSE /\ resp'.status = 404
               /\ resp'.body = NoGame]_vars

====
